---- MODULE Spec2Model ----
(***************************************************************************)
(* Job orchestration of the SEO article generator: SEOAgent drives one     *)
(* job at a time through create -> running -> fetch -> derive -> generate  *)
(* -> save, over the file-backed JobManager.                               *)
(*                                                                         *)
(* Conventions of the model                                                *)
(*   - a Python Optional is a sequence: << >> is None / SQL NULL, <<v>> is *)
(*     a present value v;                                                  *)
(*   - a text is a sequence of atoms; the atom " " is whitespace, every    *)
(*     other atom is a run of non-whitespace text (a topic, a status and   *)
(*     an error message are single atoms). Text that comes from the        *)
(*     generative service is written one character per atom;               *)
(*   - a JSON text is the sequence of its <<key, value>> members in the    *)
(*     order json.dumps writes them;                                       *)
(*   - datetime.utcnow() reads the variable clock.                         *)
(***************************************************************************)
EXTENDS Integers, Sequences, FiniteSets, TLC

\* ------------------------------------------------------------------ bounds
\* Jobs created under the orchestrator; under JobManager called on its own
\* with every kind of input, and under concurrent calls; under the listing
\* scenario; the ids uuid4 draws from; the clock; the concurrent calls.
MaxJobs == 2
MaxStoreJobs == 1
MaxListJobs == 3
MaxIds == 3
MaxClock == 1
MaxProcs == 2
MaxOver == 2

\* ------------------------------------------------------- program constants
NumResults == 10
TitleTagMax == 60
MetaDescriptionMax == 160

None == << >>
Some(v) == <<v>>
IsNone(o) == Len(o) = 0
Val(o) == o[1]

\* The test `is not None`, which the empty string passes.
Truthy_is_not_none(o) == Len(o) > 0

\* Python truthiness of an Optional[str]: None and "" are both falsy.
Truthy(o) == Len(o) > 0 /\ Val(o) # ""

Min(a, b) == IF a < b THEN a ELSE b

\* s[:n]
\* A slice that cuts nothing off.
Prefix_keeps_all(s, n) == s

Prefix(s, n) == SubSeq(s, 1, Min(n, Len(s)))

\* s[n:]
Drop(s, n) == SubSeq(s, n + 1, Len(s))

\* ----------------------------------------------------------------- inputs
JobIds == 1 .. MaxIds

Topics == {"seo"}

\* str.title() and str.lower() on the topics and keywords the model uses.
TitleCase(t) ==
    CASE t = "seo" -> "Seo"
      [] t = "email" -> "Email"
      [] OTHER -> t

LowerAtom(a) ==
    CASE a = "Seo" -> "seo"
      [] a = "Email" -> "email"
      [] a = "SEO" -> "seo"
      [] a = "The" -> "the"
      [] a = "Complete" -> "complete"
      [] a = "Guide" -> "guide"
      [] a = "</h1><p>Article" -> "</h1><p>article"
      [] OTHER -> a

Lower(s) == [i \in 1 .. Len(s) |-> LowerAtom(s[i])]

ArticleRequest(topic, wc, lang) ==
    [topic |-> topic, target_word_count |-> wc, language |-> lang]

Requests == {ArticleRequest(t, 800, "en") : t \in Topics}

\* str(e) of the exceptions the pipeline steps can raise; "" is the message
\* of an exception raised without arguments.
ErrMsgs == {"", "service unavailable"}

PENDING == "pending"
RUNNING == "running"
COMPLETED == "completed"
FAILED == "failed"
JobStatus == {PENDING, RUNNING, COMPLETED, FAILED}

\* ------------------------------------------------------------ SERPAnalyzer
\* The result of index i ranked by that index.
SERPResult_ranked_from_zero(i, query) ==
    [rank    |-> i,
     url     |-> <<"https://example", ToString(i), ".com/article">>,
     title   |-> <<"Top ", ToString(10 + i), " ", query, " - Complete Guide 2025">>,
     snippet |-> <<"Discover the best practices for ", query,
                   ". Learn about tools, strategies, and tips...">>]

\* The texts of a result are kept as the pieces of their f-strings.
SERPResult(i, query) ==
    [rank    |-> i + 1,
     url     |-> <<"https://example", ToString(i), ".com/article">>,
     title   |-> <<"Top ", ToString(10 + i), " ", query, " - Complete Guide 2025">>,
     snippet |-> <<"Discover the best practices for ", query,
                   ". Learn about tools, strategies, and tips...">>]

\* [... for i in range(10)]
generate_mock_serp(query) == [k \in 1 .. NumResults |-> SERPResult(k - 1, query)]

get_serp_data(query) == [query |-> query, results |-> generate_mock_serp(query)]

generate_outline(serp_data) ==
    LET q == TitleCase(serp_data.query) IN
    [h1 |-> <<"The", " ", "Complete", " ", "Guide", " ", "to", " ", q>>,
     sections |->
       << [h2 |-> <<"What", " ", "is", " ", q, "?">>,
           h3 |-> <<"Definition and Overview", "Why It Matters", "Key Benefits">>],
          [h2 |-> <<"Top", " ", "Strategies", " ", "for", " ", q>>,
           h3 |-> <<"Strategy #1: Foundation", "Strategy #2: Implementation",
                    "Strategy #3: Optimization">>],
          [h2 |-> <<"Best", " ", "Practices", " ", "and", " ", "Tips">>,
           h3 |-> <<"Common Mistakes to Avoid", "Expert Recommendations",
                    "Tools and Resources">>],
          [h2 |-> <<"Getting", " ", "Started", " ", "with", " ", q>>,
           h3 |-> <<"Step-by-Step Guide", "Measuring Success", "Next Steps">>] >>]

extract_questions(serp_data) ==
    LET q == serp_data.query IN
    << <<"What", " ", "is", " ", q, "?">>,
       <<"How", " ", "do", " ", "I", " ", "get", " ", "started", " ", "with", " ", q, "?">>,
       <<"What", " ", "are", " ", "the", " ", "benefits", " ", "of", " ", q, "?">>,
       <<"What", " ", "tools", " ", "are", " ", "best", " ", "for", " ", q, "?">> >>

\* -------------------------------------------------------- ArticleGenerator
\* Text helpers: str.strip(), str.startswith(), str.endswith(), str.split(),
\* str.count().
RECURSIVE LStrip(_)
LStrip(s) == IF Len(s) > 0 /\ Head(s) = " " THEN LStrip(Tail(s)) ELSE s

RECURSIVE RStrip(_)
RStrip(s) ==
    IF Len(s) > 0 /\ s[Len(s)] = " " THEN RStrip(SubSeq(s, 1, Len(s) - 1)) ELSE s

Strip(s) == RStrip(LStrip(s))

StartsWith(s, p) == Len(s) >= Len(p) /\ SubSeq(s, 1, Len(p)) = p

EndsWith(s, p) == Len(s) >= Len(p) /\ SubSeq(s, Len(s) - Len(p) + 1, Len(s)) = p

\* len(s.split()): the number of maximal runs of non-whitespace atoms.
WordCount(s) ==
    Cardinality({i \in 1 .. Len(s) : s[i] # " " /\ (i = 1 \/ s[i - 1] = " ")})

\* s.count(sub): non-overlapping occurrences, scanning from the left
\* (Python counts len(s) + 1 occurrences of the empty string).
RECURSIVE CountFrom(_, _, _)
CountFrom(s, sub, i) ==
    IF i + Len(sub) - 1 > Len(s) THEN 0
    ELSE IF SubSeq(s, i, i + Len(sub) - 1) = sub
         THEN 1 + CountFrom(s, sub, i + Len(sub))
         ELSE CountFrom(s, sub, i + 1)

Count(s, sub) == IF Len(sub) = 0 THEN Len(s) + 1 ELSE CountFrom(s, sub, 1)

\* A density that divides by at least one word instead of testing for none.
KeywordDensity_per_one_word(primary_count, word_count) ==
    IF word_count > 0
    THEN (2 * primary_count * 10000 + word_count) \div (2 * word_count)
    ELSE primary_count * 10000

\* round(primary_count / word_count * 100, 2), kept in hundredths of a percent.
KeywordDensity(primary_count, word_count) ==
    IF word_count > 0
    THEN (2 * primary_count * 10000 + word_count) \div (2 * word_count)
    ELSE 0

\* The atom "<fence>" is the three-backtick code-fence marker.
FenceJson == <<"<fence>", "json">>
Fence == <<"<fence>">>
DocAtom == "<doc>"

\* The raw completion text: its atoms, with the atom DocAtom standing for the
\* document doc written out.
RawText(text, doc) == [text |-> text, doc |-> doc]

\* lines 110-117: strip, drop a leading fence+json, a leading
\* fence, a trailing fence.
CleanResponse(text) ==
    LET r0 == Strip(text)
        r1 == IF StartsWith(r0, FenceJson) THEN Drop(r0, Len(FenceJson)) ELSE r0
        r2 == IF StartsWith(r1, Fence) THEN Drop(r1, Len(Fence)) ELSE r1
        r3 == IF EndsWith(r2, Fence) THEN SubSeq(r2, 1, Len(r2) - Len(Fence)) ELSE r2
    IN Strip(r3)

\* json.loads succeeds exactly on a text that is one well-formed document.
JsonLoadsOk(text, doc) == text = <<DocAtom>> /\ doc.kind # "invalid"

DataKeys ==
    {"article_html", "title_tag", "meta_description", "primary_keyword",
     "secondary_keywords", "internal_links", "external_references", "faq_html"}

\* The keys _parse_article_response reads with data[...], in the order it
\* reads them.
RequiredKeys ==
    <<"article_html", "primary_keyword", "title_tag", "meta_description",
      "secondary_keywords", "internal_links", "external_references">>

create_fallback_article(topic, outline) ==
    [kind |-> "object",
     keys |-> DataKeys,
     v |-> [article_html |-> <<"<h1>">> \o outline.h1 \o
                             <<"</h1><p>Article", " ", "content", " ", "for", " ",
                               topic, "...</p>">>,
            title_tag |-> <<TitleCase(topic), " ", "-", " ", "Complete", " ", "Guide">>,
            meta_description |-> <<"Learn", " ", "everything", " ", "about", " ",
                                   topic, ".", " ", "Expert", " ", "guide", " ",
                                   "with", " ", "tips", " ", "and", " ", "strategies.">>,
            primary_keyword |-> <<topic>>,
            secondary_keywords |-> << <<topic, " ", "guide">>, <<topic, " ", "tips">>,
                                      <<topic, " ", "strategies">> >>,
            internal_links |->
                << [anchor_text |-> <<topic, " ", "tools">>,
                    target_page |-> <<topic, "-tools">>,
                    context |-> <<"In tools section">>] >>,
            external_references |->
                << [source_name |-> <<"Industry Report">>,
                    url |-> <<"https://example.com">>,
                    context |-> <<"Cite statistics">>] >>,
            faq_html |-> <<"<h2>FAQ</h2><p>Common", " ", "questions", " ", "about",
                           " ", topic, "</p>">>]]

\* lines 125-153, on a dict data that carries every required key.
BuildArticle(data, outline) ==
    LET content == data.v.article_html
        word_count == WordCount(content)
        primary_count == Count(Lower(content), Lower(data.v.primary_keyword))
    IN [content |-> content,
        outline |-> outline,
        seo_metadata |->
            [title_tag |-> Prefix(data.v.title_tag, TitleTagMax),
             meta_description |-> Prefix(data.v.meta_description, MetaDescriptionMax)],
        keyword_analysis |->
            [primary_keyword |-> data.v.primary_keyword,
             secondary_keywords |-> data.v.secondary_keywords,
             keyword_density |-> KeywordDensity(primary_count, word_count)],
        internal_links |-> data.v.internal_links,
        external_references |-> data.v.external_references,
        word_count |-> word_count,
        faq_section |-> IF "faq_html" \in data.keys THEN Some(data.v.faq_html) ELSE None]

\* models.py lines 52-67: SEOMetadata accepts the two texts (max_length and
\* the validators); otherwise its constructor raises.
SEOMetadataValid(m) ==
    /\ Len(m.title_tag) <= TitleTagMax
    /\ Len(m.meta_description) <= MetaDescriptionMax

MissingKeys(data) == {i \in 1 .. Len(RequiredKeys) : RequiredKeys[i] \notin data.keys}

FirstMissingKey(data) ==
    RequiredKeys[CHOOSE i \in MissingKeys(data) : \A j \in MissingKeys(data) : i <= j]

\* The raw text parses into an object that carries every requested member.
WellShaped(raw) ==
    /\ JsonLoadsOk(CleanResponse(raw.text), raw.doc)
    /\ raw.doc.kind = "object"
    /\ \A i \in 1 .. Len(RequiredKeys) : RequiredKeys[i] \in raw.doc.keys

\* _parse_article_response: the article, or the exception that leaves it.
\* Only json.JSONDecodeError is caught (line 121); data[...] on a document that
\* is no object raises TypeError, on an object without the key KeyError.
parse_article_response(raw, topic, outline) ==
    LET response == CleanResponse(raw.text)
        data == IF JsonLoadsOk(response, raw.doc)
                THEN raw.doc
                ELSE create_fallback_article(topic, outline)
    IN IF data.kind # "object"
       THEN [raised |-> TRUE, err |-> "TypeError", article |-> None]
       ELSE IF MissingKeys(data) # {}
       THEN [raised |-> TRUE, err |-> FirstMissingKey(data), article |-> None]
       ELSE IF ~SEOMetadataValid(BuildArticle(data, outline).seo_metadata)
       THEN [raised |-> TRUE, err |-> "ValidationError", article |-> None]
       ELSE [raised |-> FALSE, err |-> "", article |-> Some(BuildArticle(data, outline))]

\* -------------------------------------------------------------- JobManager
\* The value of key k in a JSON object text.
Member(j, k) == j[CHOOSE i \in 1 .. Len(j) : j[i][1] = k][2]

\* json.dumps(job.serp_data.dict())
SerpToJson(s) ==
    << <<"query", s.query>>,
       <<"results",
         [i \in 1 .. Len(s.results) |->
            << <<"rank", s.results[i].rank>>, <<"url", s.results[i].url>>,
               <<"title", s.results[i].title>>, <<"snippet", s.results[i].snippet>> >>]>> >>

\* SerpFromJson reading the ranks as positions counted from zero.
SerpFromJson_zero_based(j) ==
    LET rs == Member(j, "results") IN
    [query |-> Member(j, "query"),
     results |-> [i \in 1 .. Len(rs) |->
                    [rank |-> Member(rs[i], "rank") - 1, url |-> Member(rs[i], "url"),
                     title |-> Member(rs[i], "title"),
                     snippet |-> Member(rs[i], "snippet")]]]

\* SERPData(**json.loads(serp_json))
SerpFromJson(j) ==
    LET rs == Member(j, "results") IN
    [query |-> Member(j, "query"),
     results |-> [i \in 1 .. Len(rs) |->
                    [rank |-> Member(rs[i], "rank"), url |-> Member(rs[i], "url"),
                     title |-> Member(rs[i], "title"),
                     snippet |-> Member(rs[i], "snippet")]]]

LinkToJson(l) ==
    << <<"anchor_text", l.anchor_text>>, <<"target_page", l.target_page>>,
       <<"context", l.context>> >>

LinkFromJson(j) ==
    [anchor_text |-> Member(j, "anchor_text"), target_page |-> Member(j, "target_page"),
     context |-> Member(j, "context")]

RefToJson(r) ==
    << <<"source_name", r.source_name>>, <<"url", r.url>>, <<"context", r.context>> >>

RefFromJson(j) ==
    [source_name |-> Member(j, "source_name"), url |-> Member(j, "url"),
     context |-> Member(j, "context")]

\* ArticleToJson writing an absent faq_section as the empty text, the way a
\* default in place of null would.
ArticleToJson_defaults_faq(a) ==
    << <<"content", a.content>>,
       <<"outline", << <<"h1", a.outline.h1>>, <<"sections", a.outline.sections>> >> >>,
       <<"seo_metadata",
         << <<"title_tag", a.seo_metadata.title_tag>>,
            <<"meta_description", a.seo_metadata.meta_description>> >> >>,
       <<"keyword_analysis",
         << <<"primary_keyword", a.keyword_analysis.primary_keyword>>,
            <<"secondary_keywords", a.keyword_analysis.secondary_keywords>>,
            <<"keyword_density", a.keyword_analysis.keyword_density>> >> >>,
       <<"internal_links",
         [i \in 1 .. Len(a.internal_links) |-> LinkToJson(a.internal_links[i])]>>,
       <<"external_references",
         [i \in 1 .. Len(a.external_references) |-> RefToJson(a.external_references[i])]>>,
       <<"word_count", a.word_count>>,
       <<"faq_section", IF IsNone(a.faq_section) THEN Some(<< >>) ELSE a.faq_section>> >>

\* json.dumps(job.article.dict()); an absent faq_section is written as null.
ArticleToJson(a) ==
    << <<"content", a.content>>,
       <<"outline", << <<"h1", a.outline.h1>>, <<"sections", a.outline.sections>> >> >>,
       <<"seo_metadata",
         << <<"title_tag", a.seo_metadata.title_tag>>,
            <<"meta_description", a.seo_metadata.meta_description>> >> >>,
       <<"keyword_analysis",
         << <<"primary_keyword", a.keyword_analysis.primary_keyword>>,
            <<"secondary_keywords", a.keyword_analysis.secondary_keywords>>,
            <<"keyword_density", a.keyword_analysis.keyword_density>> >> >>,
       <<"internal_links",
         [i \in 1 .. Len(a.internal_links) |-> LinkToJson(a.internal_links[i])]>>,
       <<"external_references",
         [i \in 1 .. Len(a.external_references) |-> RefToJson(a.external_references[i])]>>,
       <<"word_count", a.word_count>>,
       <<"faq_section", a.faq_section>> >>

\* GeneratedArticle(**json.loads(article_json))
ArticleFromJson(j) ==
    LET o == Member(j, "outline")
        m == Member(j, "seo_metadata")
        k == Member(j, "keyword_analysis")
        il == Member(j, "internal_links")
        er == Member(j, "external_references")
    IN [content |-> Member(j, "content"),
        outline |-> [h1 |-> Member(o, "h1"), sections |-> Member(o, "sections")],
        seo_metadata |-> [title_tag |-> Member(m, "title_tag"),
                          meta_description |-> Member(m, "meta_description")],
        keyword_analysis |->
            [primary_keyword |-> Member(k, "primary_keyword"),
             secondary_keywords |-> Member(k, "secondary_keywords"),
             keyword_density |-> Member(k, "keyword_density")],
        internal_links |-> [i \in 1 .. Len(il) |-> LinkFromJson(il[i])],
        external_references |-> [i \in 1 .. Len(er) |-> RefFromJson(er[i])],
        word_count |-> Member(j, "word_count"),
        faq_section |-> Member(j, "faq_section")]

\* datetime.isoformat() and datetime.fromisoformat()
IsoFormat(t) == [iso |-> t]
FromIsoFormat(x) == x.iso

GenerationJob(job_id, status, request, serp_data, article, error, created, updated) ==
    [job_id |-> job_id, status |-> status, request |-> request,
     serp_data |-> serp_data, article |-> article, error_message |-> error,
     created_at |-> created, updated_at |-> updated]

\* A row whose created_at column is written from the time of the write.
JobToRow_restamps(job) ==
    [job_id |-> job.job_id,
     status |-> job.status,
     topic |-> job.request.topic,
     target_word_count |-> job.request.target_word_count,
     language |-> job.request.language,
     serp_data |-> IF IsNone(job.serp_data) THEN None
                   ELSE Some(SerpToJson(Val(job.serp_data))),
     article_data |-> IF IsNone(job.article) THEN None
                      ELSE Some(ArticleToJson(Val(job.article))),
     error_message |-> job.error_message,
     created_at |-> IsoFormat(job.updated_at),
     updated_at |-> IsoFormat(job.updated_at)]

\* The row _save_job writes for a job (INSERT OR REPLACE VALUES ...).
JobToRow(job) ==
    [job_id |-> job.job_id,
     status |-> job.status,
     topic |-> job.request.topic,
     target_word_count |-> job.request.target_word_count,
     language |-> job.request.language,
     serp_data |-> IF IsNone(job.serp_data) THEN None
                   ELSE Some(SerpToJson(Val(job.serp_data))),
     article_data |-> IF IsNone(job.article) THEN None
                      ELSE Some(ArticleToJson(Val(job.article))),
     error_message |-> job.error_message,
     created_at |-> IsoFormat(job.created_at),
     updated_at |-> IsoFormat(job.updated_at)]

row_to_job(row) ==
    GenerationJob(row.job_id, row.status,
                  ArticleRequest(row.topic, row.target_word_count, row.language),
                  IF IsNone(row.serp_data) THEN None
                  ELSE Some(SerpFromJson(Val(row.serp_data))),
                  IF IsNone(row.article_data) THEN None
                  ELSE Some(ArticleFromJson(Val(row.article_data))),
                  row.error_message,
                  FromIsoFormat(row.created_at),
                  FromIsoFormat(row.updated_at))

\* The jobs table: a function from the stored job ids to their rows.
EmptyStore == [id \in {} |-> 0]

\* A write that updates the columns it has a value for and keeps a stored
\* article when the record written carries none.
save_job_keeps_article(st, job) ==
    [id \in DOMAIN st \cup {job.job_id} |->
        IF id # job.job_id THEN st[id]
        ELSE IF id \in DOMAIN st /\ IsNone(job.article)
             THEN [JobToRow(job) EXCEPT !.article_data = st[id].article_data]
             ELSE JobToRow(job)]

\* INSERT OR REPLACE: the row of job.job_id is overwritten whole.
save_job(st, job) ==
    [id \in DOMAIN st \cup {job.job_id} |->
        IF id = job.job_id THEN JobToRow(job) ELSE st[id]]

get_job(st, job_id) ==
    IF job_id \in DOMAIN st THEN Some(row_to_job(st[job_id])) ELSE None

\* lines 47-53: the record create_job builds, and returns (line 56).
new_job(job_id, request, now) ==
    GenerationJob(job_id, PENDING, request, None, None, None, now, now)

create_job(st, job_id, request, now) == save_job(st, new_job(job_id, request, now))

\* lines 81-84, 94-95 and 104-106: what each call changes on the record it
\* loaded, before it writes the record back. error is None or Some(message),
\* and is assigned only when it is truthy (line 83).
\* set_status building a new record from the id, the request and the times
\* instead of changing the loaded one: SERP data and article are not kept.
set_status_rebuilds(job, status, error, now) ==
    GenerationJob(job.job_id, status, job.request, None, None,
                  IF Truthy(error) THEN error ELSE job.error_message,
                  job.created_at, now)

set_status(job, status, error, now) ==
    [job EXCEPT !.status = status,
                !.updated_at = now,
                !.error_message = IF Truthy(error) THEN error ELSE @]

set_serp_data(job, serp_data, now) ==
    [job EXCEPT !.serp_data = Some(serp_data), !.updated_at = now]

\* set_article without the assignment of line 106.
set_article_keeps_time(job, article, now) ==
    [job EXCEPT !.article = Some(article), !.status = COMPLETED]

set_article(job, article, now) ==
    [job EXCEPT !.article = Some(article), !.status = COMPLETED, !.updated_at = now]

\* update_job_status without the assignment of line 81: the status is kept.
update_job_status_keeps_status(st, job_id, status, error, now) ==
    LET job == Val(get_job(st, job_id)) IN
    save_job(st, [job EXCEPT !.updated_at = now,
                             !.error_message = IF Truthy(error) THEN error ELSE @])

\* update_job_status, save_serp_data and save_article on a stored job: load
\* the record, change it, write it back whole.
update_job_status(st, job_id, status, error, now) ==
    save_job(st, set_status(Val(get_job(st, job_id)), status, error, now))

\* save_serp_data without the assignment of line 94: only the time is saved.
save_serp_data_forgets_data(st, job_id, serp_data, now) ==
    save_job(st, [Val(get_job(st, job_id)) EXCEPT !.updated_at = now])

save_serp_data(st, job_id, serp_data, now) ==
    save_job(st, set_serp_data(Val(get_job(st, job_id)), serp_data, now))

\* save_article that rebuilds the record from the request and the article
\* instead of mutating the loaded one: the SERP data is not carried over.
save_article_drops_serp(st, job_id, article, now) ==
    LET job == Val(get_job(st, job_id)) IN
    save_job(st, [job EXCEPT !.article = Some(article),
                             !.serp_data = None,
                             !.status = COMPLETED,
                             !.updated_at = now])

save_article(st, job_id, article, now) ==
    save_job(st, set_article(Val(get_job(st, job_id)), article, now))

\* ------------------------------------------- the generative text service
\* A well-formed response document for a topic (one character per atom in
\* the title and the description).
GoodDoc(topic) ==
    [kind |-> "object",
     keys |-> DataKeys,
     v |-> [article_html |-> <<"<p>", topic, " ", "matters", " ", "today", "</p>">>,
            title_tag |-> <<"A", " ", "g", "u", "i", "d", "e">>,
            meta_description |-> <<"A", "l", "l", " ", "o", "f", " ", "i", "t">>,
            primary_keyword |-> <<topic>>,
            secondary_keywords |-> << <<topic, " ", "basics">> >>,
            internal_links |->
                << [anchor_text |-> <<"tools">>, target_page |-> <<"tools">>,
                    context |-> <<"intro">>] >>,
            external_references |->
                << [source_name |-> <<"Report">>, url |-> <<"https://example.com">>,
                    context |-> <<"stats">>] >>,
            faq_html |-> <<"<h2>FAQ</h2>">>]]

\* {} : an object that carries none of the requested members.
EmptyObjectDoc(topic) == [GoodDoc(topic) EXCEPT !.keys = {}]

\* Text that is no JSON at all.
InvalidDoc(topic) == [GoodDoc(topic) EXCEPT !.kind = "invalid", !.keys = {}]

\* The raw texts the service returns in the model.
Responses(topic) ==
    { RawText(<<DocAtom>>, GoodDoc(topic)),
      RawText(<<" ">> \o FenceJson \o <<" ", DocAtom, " ">> \o Fence \o <<" ">>,
              GoodDoc(topic)),
      RawText(<<DocAtom>>, InvalidDoc(topic)),
      RawText(<<"Sure!", " ", DocAtom>>, GoodDoc(topic)),
      RawText(<<DocAtom>>, EmptyObjectDoc(topic)) }

\* ---------------------------------------------------------------- SEOAgent
VARIABLES
    store,      \* the jobs table of the database file
    clock,      \* the value datetime.utcnow() returns
    pc,         \* where the agent is: "idle" or a step of a call in progress
    gen,        \* the frame of generate_article
    res,        \* the frame of resume_job
    result,     \* what the last finished call gave its caller
    calls,      \* history: what the last call invoked and was answered
    inflight    \* the JobManager calls other processes have in progress

vars == <<store, clock, pc, gen, res, result, calls, inflight>>

NoGen == [active |-> FALSE, job_id |-> 0, request |-> None, serp_data |-> None,
          outline |-> None, questions |-> None, article |-> None, err |-> ""]

\* pre is the jobs table as resume_job found it.
NoRes == [active |-> FALSE, job_id |-> 0, job |-> None, outline |-> None,
          questions |-> None, article |-> None, err |-> "", pre |-> EmptyStore]

\* fetch, generate: the Content Source, the generative service was invoked;
\* malformed: the service answered with a text that is not the requested shape.
NoCalls == [fetch |-> FALSE, generate |-> FALSE, malformed |-> FALSE]

Result(op, kind, job, err, list) ==
    [op |-> op, kind |-> kind, job |-> job, err |-> err, list |-> list]

NoResult == Result("none", "none", None, "", << >>)

\* A JobManager call of another process using the same database file: it has
\* loaded the record (get_job), changed it in memory, or written it back.
\* Each process makes one call.
Procs == 1 .. MaxProcs

NoCall == [at |-> "idle", op |-> "none", arg |-> << >>, job_id |-> 0, job |-> None]

\* An id source that can give an id again: a stored one whenever there is one.
uuid4_repeats(st) == IF DOMAIN st # {} THEN CHOOSE id \in DOMAIN st : TRUE ELSE 1

\* uuid.uuid4(): an id no stored job has (the least one, ids being opaque).
uuid4(st) == CHOOSE id \in JobIds \ DOMAIN st : \A other \in JobIds \ DOMAIN st : id <= other

Init ==
    /\ store = EmptyStore
    /\ clock = 0
    /\ pc = "idle"
    /\ gen = NoGen
    /\ res = NoRes
    /\ result = NoResult
    /\ calls = NoCalls
    /\ inflight = [p \in Procs |-> NoCall]

\* The operation the caller invoked.
TopOp == IF res.active THEN "resume" ELSE "generate"

\* Time passes.
Tick ==
    /\ clock < MaxClock
    /\ clock' = clock + 1
    /\ UNCHANGED <<store, pc, gen, res, result, calls, inflight>>

\* generate_article, line 28: create the job with a fresh uuid4.
StartGeneration(request) ==
    /\ pc = "idle"
    /\ JobIds \ DOMAIN store # {}
    /\ Cardinality(DOMAIN store) < MaxJobs
    /\ LET job_id == uuid4(store) IN
         /\ store' = create_job(store, job_id, request, clock)
         /\ gen' = [NoGen EXCEPT !.active = TRUE, !.job_id = job_id,
                                 !.request = Some(request)]
    /\ res' = NoRes
    /\ calls' = NoCalls
    /\ result' = NoResult
    /\ pc' = "g_set_running"
    /\ UNCHANGED <<clock, inflight>>

\* line 33
GenSetRunning ==
    /\ pc = "g_set_running"
    /\ store' = update_job_status(store, gen.job_id, RUNNING, None, clock)
    /\ pc' = "g_fetch"
    /\ UNCHANGED <<clock, gen, res, result, calls, inflight>>

\* line 36
GenFetch ==
    /\ pc = "g_fetch"
    /\ gen' = [gen EXCEPT !.serp_data = Some(get_serp_data(Val(gen.request).topic))]
    /\ calls' = [calls EXCEPT !.fetch = TRUE]
    /\ pc' = "g_save_serp"
    /\ UNCHANGED <<store, clock, res, result, inflight>>

\* line 37
GenSaveSerp ==
    /\ pc = "g_save_serp"
    /\ store' = save_serp_data(store, gen.job_id, Val(gen.serp_data), clock)
    /\ pc' = "g_derive"
    /\ UNCHANGED <<clock, gen, res, result, calls, inflight>>

\* lines 42-44
GenDerive ==
    /\ pc = "g_derive"
    /\ gen' = [gen EXCEPT !.outline = Some(generate_outline(Val(gen.serp_data))),
                          !.questions = Some(extract_questions(Val(gen.serp_data)))]
    /\ pc' = "g_generate"
    /\ UNCHANGED <<store, clock, res, result, calls, inflight>>

\* lines 48-53: the service answers with a raw text, which
\* _parse_article_response turns into an article or an exception.
GenAnswer(raw) ==
    /\ pc = "g_generate"
    /\ LET r == parse_article_response(raw, Val(gen.request).topic, Val(gen.outline))
       IN /\ IF r.raised
             THEN /\ gen' = [gen EXCEPT !.err = r.err]
                  /\ pc' = "g_except"
             ELSE /\ gen' = [gen EXCEPT !.article = r.article]
                  /\ pc' = "g_save_article"
          /\ calls' = [calls EXCEPT !.generate = TRUE,
                                    !.malformed = ~WellShaped(raw)]
    /\ UNCHANGED <<store, clock, res, result, inflight>>

GenGenerate ==
    /\ pc = "g_generate"
    /\ \E raw \in Responses(Val(gen.request).topic) : GenAnswer(raw)

\* line 56
GenSaveArticle ==
    /\ pc = "g_save_article"
    /\ store' = save_article(store, gen.job_id, Val(gen.article), clock)
    /\ pc' = "g_reread"
    /\ UNCHANGED <<clock, gen, res, result, calls, inflight>>

\* line 60: return the job as stored; resume_job (line 104) hands it on.
GenReread ==
    /\ pc = "g_reread"
    /\ result' = Result(TopOp, "returned", get_job(store, gen.job_id), "", << >>)
    /\ gen' = NoGen
    /\ res' = NoRes
    /\ pc' = "idle"
    /\ UNCHANGED <<store, clock, calls, inflight>>

GenTryPcs ==
    {"g_set_running", "g_fetch", "g_save_serp", "g_derive", "g_generate",
     "g_save_article", "g_reread"}

\* A step inside the try block (lines 31-60) raises an exception whose
\* str() is e, before it has written anything.
GenRaise(e) ==
    /\ pc \in GenTryPcs
    /\ gen' = [gen EXCEPT !.err = e]
    /\ calls' = [calls EXCEPT !.fetch = @ \/ pc = "g_fetch",
                              !.generate = @ \/ pc = "g_generate"]
    /\ pc' = "g_except"
    /\ UNCHANGED <<store, clock, res, result, inflight>>

\* lines 62-69: record the failure and re-raise, to resume_job's handler
\* when resume_job made the call.
GenExcept ==
    /\ pc = "g_except"
    /\ store' = update_job_status(store, gen.job_id, FAILED, Some(gen.err), clock)
    /\ gen' = NoGen
    /\ IF res.active
       THEN /\ res' = [res EXCEPT !.err = gen.err]
            /\ pc' = "r_except"
            /\ UNCHANGED result
       ELSE /\ res' = res
            /\ pc' = "idle"
            /\ result' = Result("generate", "raised", None, gen.err, << >>)
    /\ UNCHANGED <<clock, calls, inflight>>

\* resume_job, lines 76-78: the id is not in the store.
ResumeNotFound(job_id) ==
    /\ pc = "idle"
    /\ IsNone(get_job(store, job_id))
    /\ result' = Result("resume", "raised", None, "not found", << >>)
    /\ calls' = NoCalls
    /\ UNCHANGED <<store, clock, pc, gen, res, inflight>>

\* resume_job without the early return of lines 80-82 being free of writes:
\* the completed job is saved again.
ResumeCompleted_Resaves(job_id) ==
    /\ pc = "idle"
    /\ ~IsNone(get_job(store, job_id))
    /\ Val(get_job(store, job_id)).status = COMPLETED
    /\ store' = update_job_status(store, job_id, COMPLETED, None, clock)
    /\ result' = Result("resume", "returned", get_job(store', job_id), "", << >>)
    /\ calls' = NoCalls
    /\ UNCHANGED <<clock, pc, gen, res, inflight>>

\* lines 80-82: the job is already completed.
ResumeCompleted(job_id) ==
    /\ pc = "idle"
    /\ ~IsNone(get_job(store, job_id))
    /\ Val(get_job(store, job_id)).status = COMPLETED
    /\ result' = Result("resume", "returned", get_job(store, job_id), "", << >>)
    /\ calls' = NoCalls
    /\ UNCHANGED <<store, clock, pc, gen, res, inflight>>

\* lines 86-89: the loaded job carries SERP data.
ResumeWithSerp(job_id) ==
    /\ pc = "idle"
    /\ ~IsNone(get_job(store, job_id))
    /\ LET job == Val(get_job(store, job_id)) IN
         /\ job.status # COMPLETED
         /\ ~IsNone(job.serp_data)
         /\ res' = [NoRes EXCEPT !.active = TRUE, !.job_id = job_id,
                                 !.job = Some(job), !.pre = store]
    /\ gen' = NoGen
    /\ calls' = NoCalls
    /\ result' = NoResult
    /\ pc' = "r_derive"
    /\ UNCHANGED <<store, clock, inflight>>

\* The start-from-scratch branch restarting the pipeline on the job being
\* resumed, under its own id, instead of creating a job.
ResumeFromScratch_ReusesId(job_id) ==
    /\ pc = "idle"
    /\ ~IsNone(get_job(store, job_id))
    /\ LET job == Val(get_job(store, job_id)) IN
         /\ job.status # COMPLETED
         /\ IsNone(job.serp_data)
         /\ res' = [NoRes EXCEPT !.active = TRUE, !.job_id = job_id,
                                 !.job = Some(job), !.pre = store]
         /\ store' = create_job(store, job_id, job.request, clock)
         /\ gen' = [NoGen EXCEPT !.active = TRUE, !.job_id = job_id,
                                 !.request = Some(job.request)]
    /\ calls' = NoCalls
    /\ result' = NoResult
    /\ pc' = "g_set_running"
    /\ UNCHANGED <<clock, inflight>>

\* lines 102-104: no SERP data, so generate_article(job.request) is called,
\* which creates a job of its own (line 28).
ResumeFromScratch(job_id) ==
    /\ pc = "idle"
    /\ ~IsNone(get_job(store, job_id))
    /\ JobIds \ DOMAIN store # {}
    /\ Cardinality(DOMAIN store) < MaxJobs
    /\ LET job == Val(get_job(store, job_id))
           new_id == uuid4(store)
       IN
         /\ job.status # COMPLETED
         /\ IsNone(job.serp_data)
         /\ res' = [NoRes EXCEPT !.active = TRUE, !.job_id = job_id,
                                 !.job = Some(job), !.pre = store]
         /\ store' = create_job(store, new_id, job.request, clock)
         /\ gen' = [NoGen EXCEPT !.active = TRUE, !.job_id = new_id,
                                 !.request = Some(job.request)]
    /\ calls' = NoCalls
    /\ result' = NoResult
    /\ pc' = "g_set_running"
    /\ UNCHANGED <<clock, inflight>>

\* lines 90-92
ResDerive ==
    /\ pc = "r_derive"
    /\ res' = [res EXCEPT
                 !.outline = Some(generate_outline(Val(Val(res.job).serp_data))),
                 !.questions = Some(extract_questions(Val(Val(res.job).serp_data)))]
    /\ pc' = "r_generate"
    /\ UNCHANGED <<store, clock, gen, result, calls, inflight>>

\* lines 94-99
ResAnswer(raw) ==
    /\ pc = "r_generate"
    /\ LET r == parse_article_response(raw, Val(res.job).request.topic,
                                       Val(res.outline))
       IN /\ IF r.raised
             THEN /\ res' = [res EXCEPT !.err = r.err]
                  /\ pc' = "r_except"
             ELSE /\ res' = [res EXCEPT !.article = r.article]
                  /\ pc' = "r_save_article"
          /\ calls' = [calls EXCEPT !.generate = TRUE,
                                    !.malformed = ~WellShaped(raw)]
    /\ UNCHANGED <<store, clock, gen, result, inflight>>

ResGenerate ==
    /\ pc = "r_generate"
    /\ \E raw \in Responses(Val(res.job).request.topic) : ResAnswer(raw)

\* line 101
ResSaveArticle ==
    /\ pc = "r_save_article"
    /\ store' = save_article(store, res.job_id, Val(res.article), clock)
    /\ pc' = "r_reread"
    /\ UNCHANGED <<clock, gen, res, result, calls, inflight>>

\* line 106
ResReread ==
    /\ pc = "r_reread"
    /\ result' = Result("resume", "returned", get_job(store, res.job_id), "", << >>)
    /\ res' = NoRes
    /\ pc' = "idle"
    /\ UNCHANGED <<store, clock, gen, calls, inflight>>

ResTryPcs == {"r_derive", "r_generate", "r_save_article", "r_reread"}

\* A step inside resume_job's try block (lines 86-106) raises an exception
\* whose str() is e, before it has written anything.
ResRaise(e) ==
    /\ pc \in ResTryPcs
    /\ res' = [res EXCEPT !.err = e]
    /\ calls' = [calls EXCEPT !.generate = @ \/ pc = "r_generate"]
    /\ pc' = "r_except"
    /\ UNCHANGED <<store, clock, gen, result, inflight>>

\* lines 108-111
ResExcept ==
    /\ pc = "r_except"
    /\ store' = update_job_status(store, res.job_id, FAILED, Some(res.err), clock)
    /\ result' = Result("resume", "raised", None, res.err, << >>)
    /\ res' = NoRes
    /\ pc' = "idle"
    /\ UNCHANGED <<clock, gen, calls, inflight>>

\* get_job_status, lines 113-118
GetJobStatus(job_id) ==
    /\ pc = "idle"
    /\ result' = IF IsNone(get_job(store, job_id))
                 THEN Result("status", "raised", None, "not found", << >>)
                 ELSE Result("status", "returned", get_job(store, job_id), "", << >>)
    /\ calls' = NoCalls
    /\ UNCHANGED <<store, clock, pc, gen, res, inflight>>

DefaultLimit == 10
Limits == {1, DefaultLimit}

Summary(row) ==
    [job_id |-> row.job_id, status |-> row.status, topic |-> row.topic,
     created_at |-> row.created_at]

\* ORDER BY created_at ASC: the oldest job first.
CreatedOrders_oldest_first(st) ==
    LET n == Cardinality(DOMAIN st) IN
    {o \in [1 .. n -> DOMAIN st] :
        /\ \A i, j \in 1 .. n : i # j => o[i] # o[j]
        /\ \A i, j \in 1 .. n :
              i < j => FromIsoFormat(st[o[i]].created_at) <= FromIsoFormat(st[o[j]].created_at)}

\* The orders ORDER BY created_at DESC may give the rows: every arrangement
\* of the stored ids with created_at non-increasing (equal keys in any order).
CreatedOrders(st) ==
    LET n == Cardinality(DOMAIN st) IN
    {o \in [1 .. n -> DOMAIN st] :
        /\ \A i, j \in 1 .. n : i # j => o[i] # o[j]
        /\ \A i, j \in 1 .. n :
              i < j => FromIsoFormat(st[o[i]].created_at) >= FromIsoFormat(st[o[j]].created_at)}

\* list_jobs, job_manager.py lines 163-186
list_jobs(st, order, limit) ==
    [i \in 1 .. Min(limit, Len(order)) |-> Summary(st[order[i]])]

\* SEOAgent.list_jobs, lines 120-122
ListJobs(limit) ==
    /\ pc = "idle"
    /\ \E o \in CreatedOrders(store) :
          result' = Result("list", "returned", None, "", list_jobs(store, o, limit))
    /\ calls' = NoCalls
    /\ UNCHANGED <<store, clock, pc, gen, res, inflight>>

\* The process exits in the middle of a call: the store keeps what was
\* written, the frames are gone, the caller gets nothing.
Interrupt ==
    /\ pc # "idle"
    /\ result' = Result(TopOp, "interrupted", None, "", << >>)
    /\ gen' = NoGen
    /\ res' = NoRes
    /\ pc' = "idle"
    /\ UNCHANGED <<store, clock, calls, inflight>>

Next ==
    \/ Tick
    \/ \E request \in Requests : StartGeneration(request)
    \/ GenSetRunning
    \/ GenFetch
    \/ GenSaveSerp
    \/ GenDerive
    \/ GenGenerate
    \/ GenSaveArticle
    \/ GenReread
    \/ \E e \in ErrMsgs : GenRaise(e)
    \/ GenExcept
    \/ \E job_id \in JobIds : ResumeNotFound(job_id)
    \/ \E job_id \in JobIds : ResumeCompleted(job_id)
    \/ \E job_id \in JobIds : ResumeWithSerp(job_id)
    \/ \E job_id \in JobIds : ResumeFromScratch(job_id)
    \/ ResDerive
    \/ ResGenerate
    \/ ResSaveArticle
    \/ ResReread
    \/ \E e \in ErrMsgs : ResRaise(e)
    \/ ResExcept
    \/ \E job_id \in JobIds : GetJobStatus(job_id)
    \/ \E limit \in Limits : ListJobs(limit)
    \/ Interrupt

Spec == Init /\ [][Next]_vars

\* ------------------------------------------- JobManager called on its own
\* The methods of JobManager are public: the tests and any other caller use
\* them directly, with any id, status, error, SERP data and article.
ErrorInputs == {None} \cup {Some(e) : e \in ErrMsgs}

\* SERP data as the Content Source gives it, and one without results.
SerpInputs ==
    {get_serp_data(t) : t \in Topics} \cup {[query |-> t, results |-> << >>] : t \in Topics}

\* A response without the optional member faq_html (read with data.get).
NoFaqDoc(topic) == [GoodDoc(topic) EXCEPT !.keys = DataKeys \ {"faq_html"}]

\* Articles as _parse_article_response builds them: with and without FAQ,
\* and the fallback article.
ArticleInputs ==
    UNION {LET outline == generate_outline(get_serp_data(t)) IN
           {BuildArticle(d, outline) :
               d \in {GoodDoc(t), NoFaqDoc(t), create_fallback_article(t, outline)}} :
           t \in Topics}

\* create_job, lines 42-56: the caller gets the record as built in memory.
CreateJob(request) ==
    /\ pc = "idle"
    /\ JobIds \ DOMAIN store # {}
    /\ LET job_id == uuid4(store) IN
         /\ store' = create_job(store, job_id, request, clock)
         /\ result' = Result("create", "returned",
                             Some(new_job(job_id, request, clock)), "", << >>)
    /\ calls' = NoCalls
    /\ UNCHANGED <<clock, pc, gen, res, inflight>>

\* update_job_status, lines 75-86: ValueError when the id is not stored.
UpdateJobStatus(job_id, status, error) ==
    /\ pc = "idle"
    /\ IF IsNone(get_job(store, job_id))
       THEN /\ result' = Result("update_status", "raised", None, "not found", << >>)
            /\ UNCHANGED store
       ELSE /\ store' = update_job_status(store, job_id, status, error, clock)
            /\ result' = Result("update_status", "returned", None, "", << >>)
    /\ calls' = NoCalls
    /\ UNCHANGED <<clock, pc, gen, res, inflight>>

\* save_serp_data without the check of lines 91-92: the INSERT OR REPLACE of
\* _save_job then inserts a row for an id that was not stored.
SaveSerpData_Upserts(job_id, serp_data) ==
    /\ pc = "idle"
    /\ LET request == CHOOSE r \in Requests : TRUE
           job == IF IsNone(get_job(store, job_id))
                  THEN new_job(job_id, request, clock)
                  ELSE Val(get_job(store, job_id))
       IN store' = save_job(store, set_serp_data(job, serp_data, clock))
    /\ result' = Result("save_serp", "returned", None, "", << >>)
    /\ calls' = NoCalls
    /\ UNCHANGED <<clock, pc, gen, res, inflight>>

\* save_serp_data, lines 88-96
SaveSerpData(job_id, serp_data) ==
    /\ pc = "idle"
    /\ IF IsNone(get_job(store, job_id))
       THEN /\ result' = Result("save_serp", "raised", None, "not found", << >>)
            /\ UNCHANGED store
       ELSE /\ store' = save_serp_data(store, job_id, serp_data, clock)
            /\ result' = Result("save_serp", "returned", None, "", << >>)
    /\ calls' = NoCalls
    /\ UNCHANGED <<clock, pc, gen, res, inflight>>

\* save_article, lines 98-107
SaveArticle(job_id, article) ==
    /\ pc = "idle"
    /\ IF IsNone(get_job(store, job_id))
       THEN /\ result' = Result("save_article", "raised", None, "not found", << >>)
            /\ UNCHANGED store
       ELSE /\ store' = save_article(store, job_id, article, clock)
            /\ result' = Result("save_article", "returned", None, "", << >>)
    /\ calls' = NoCalls
    /\ UNCHANGED <<clock, pc, gen, res, inflight>>

StoreNext ==
    \/ Tick
    \/ \E request \in Requests :
          Cardinality(DOMAIN store) < MaxStoreJobs /\ CreateJob(request)
    \/ \E job_id \in JobIds, status \in JobStatus, error \in ErrorInputs :
          UpdateJobStatus(job_id, status, error)
    \/ \E job_id \in JobIds, serp_data \in SerpInputs : SaveSerpData(job_id, serp_data)
    \/ \E job_id \in JobIds, article \in ArticleInputs : SaveArticle(job_id, article)
    \/ \E job_id \in JobIds : GetJobStatus(job_id)
    \/ \E job_id \in JobIds : ResumeNotFound(job_id)

StoreSpec == Init /\ [][StoreNext]_vars

\* ------------------------------------------------- many jobs and list_jobs
\* The listing scenario of the tests: jobs are created, some change status,
\* and the jobs are listed with a limit below, at and above their number.
ListLimits == {0, 1, 2, DefaultLimit}

ListNext ==
    \/ Tick
    \/ \E request \in Requests :
          Cardinality(DOMAIN store) < MaxListJobs /\ CreateJob(request)
    \/ \E job_id \in JobIds, status \in {RUNNING, FAILED} :
          UpdateJobStatus(job_id, status, None)
    \/ \E job_id \in JobIds : GetJobStatus(job_id)
    \/ \E limit \in ListLimits : ListJobs(limit)

ListSpec == Init /\ [][ListNext]_vars

\* ------------------------------------- concurrent calls on one database
\* Processes that share the database file each run one JobManager call. A
\* call is three steps: get_job (its own connection, lines 60-68), the change
\* of the loaded record in memory, and _save_job (its own connection and
\* commit, lines 111-136); the steps of different calls interleave.
RaceCalls ==
    {[op |-> "update_status", arg |-> <<RUNNING, None>>],
     [op |-> "update_status", arg |-> <<FAILED, Some("service unavailable")>>]}
    \cup {[op |-> "save_serp_data", arg |-> <<sd>>] : sd \in {get_serp_data(t) : t \in Topics}}
    \cup {[op |-> "save_article", arg |-> <<a>>] :
             a \in {BuildArticle(GoodDoc(t), generate_outline(get_serp_data(t))) :
                       t \in Topics}}

\* lines 77-79, 90-92, 100-102: load the record, or raise when it is not stored.
CallLoads(p, call, job_id) ==
    /\ pc = "idle"
    /\ inflight[p].at = "idle"
    /\ inflight' = [inflight EXCEPT ![p] =
                       [at |-> IF IsNone(get_job(store, job_id)) THEN "raised" ELSE "loaded",
                        op |-> call.op, arg |-> call.arg, job_id |-> job_id,
                        job |-> get_job(store, job_id)]]
    /\ UNCHANGED <<store, clock, pc, gen, res, result, calls>>

\* lines 81-84, 94-95, 104-106: change the loaded record.
CallMutates(p) ==
    /\ inflight[p].at = "loaded"
    /\ LET c == inflight[p]
           job == Val(c.job)
           changed == CASE c.op = "update_status" ->
                               set_status(job, c.arg[1], c.arg[2], clock)
                        [] c.op = "save_serp_data" -> set_serp_data(job, c.arg[1], clock)
                        [] c.op = "save_article" -> set_article(job, c.arg[1], clock)
       IN inflight' = [inflight EXCEPT ![p].at = "mutated", ![p].job = Some(changed)]
    /\ UNCHANGED <<store, clock, pc, gen, res, result, calls>>

\* lines 86, 96, 107: _save_job writes the record back.
CallWrites(p) ==
    /\ inflight[p].at = "mutated"
    /\ store' = save_job(store, Val(inflight[p].job))
    /\ inflight' = [inflight EXCEPT ![p].at = "done"]
    /\ UNCHANGED <<clock, pc, gen, res, result, calls>>

RaceNext ==
    \/ Tick
    \/ \E request \in Requests :
          Cardinality(DOMAIN store) < MaxStoreJobs /\ CreateJob(request)
    \/ \E p \in Procs, call \in RaceCalls, job_id \in JobIds : CallLoads(p, call, job_id)
    \/ \E p \in Procs : CallMutates(p)
    \/ \E p \in Procs : CallWrites(p)
    \/ \E job_id \in JobIds : GetJobStatus(job_id)

RaceSpec == Init /\ [][RaceNext]_vars

\* ------------------------------------------- a call runs to its end
\* The process does not exit and no call hangs: a call in progress takes its
\* next step, which succeeds or fails. Here the write of a handler (lines
\* 64-68, 110) is a store access like the others: it too can raise, and the
\* error that then leaves the call is the one of that write.
StoreError == "database is locked"

\* lines 62-69, update_job_status raising: nothing is written.
GenExceptFails ==
    /\ pc = "g_except"
    /\ gen' = NoGen
    /\ IF res.active
       THEN /\ res' = [res EXCEPT !.err = StoreError]
            /\ pc' = "r_except"
            /\ UNCHANGED result
       ELSE /\ res' = res
            /\ pc' = "idle"
            /\ result' = Result("generate", "raised", None, StoreError, << >>)
    /\ UNCHANGED <<store, clock, calls, inflight>>

\* lines 108-111, update_job_status raising: nothing is written.
ResExceptFails ==
    /\ pc = "r_except"
    /\ result' = Result("resume", "raised", None, StoreError, << >>)
    /\ res' = NoRes
    /\ pc' = "idle"
    /\ UNCHANGED <<store, clock, gen, calls, inflight>>

\* The steps of a call in progress.
CallStep ==
    \/ GenSetRunning
    \/ GenFetch
    \/ GenSaveSerp
    \/ GenDerive
    \/ GenGenerate
    \/ GenSaveArticle
    \/ GenReread
    \/ \E e \in ErrMsgs : GenRaise(e)
    \/ GenExcept
    \/ GenExceptFails
    \/ ResDerive
    \/ ResGenerate
    \/ ResSaveArticle
    \/ ResReread
    \/ \E e \in ErrMsgs : ResRaise(e)
    \/ ResExcept
    \/ ResExceptFails

LiveNext ==
    \/ \E request \in Requests : StartGeneration(request)
    \/ \E job_id \in JobIds : ResumeNotFound(job_id)
    \/ \E job_id \in JobIds : ResumeCompleted(job_id)
    \/ \E job_id \in JobIds : ResumeWithSerp(job_id)
    \/ \E job_id \in JobIds : ResumeFromScratch(job_id)
    \/ CallStep

\* The positions of a call in progress.
CallPcs == GenTryPcs \cup ResTryPcs \cup {"g_except", "r_except"}

\* The call in progress leaves its position. Under LiveNext the steps that do
\* so are those of CallStep, and one of them is possible at every position of
\* CallPcs (each is guarded by the position alone), so that weak fairness of
\* Proceeds is weak fairness of CallStep.
Proceeds == pc \in CallPcs /\ pc' \in (CallPcs \cup {"idle"}) \ {pc}

LiveSpec == Init /\ [][LiveNext]_vars /\ WF_pc(Proceeds)

\* ------------------------------------- the service's title and description
\* The service is asked for a title under 60 and a description under 160
\* characters (prompt, lines 81-82) and answers with texts of any length:
\* here empty ones and ones from just under the limit to MaxOver over it.
\* A text of n characters, no two lengths giving texts that begin alike.
Chars(n) == [i \in 1 .. n |-> ToString((i + n) % 10)]

TitleLens == {0} \cup (TitleTagMax - 1 .. TitleTagMax + MaxOver)

MetaLens == {0} \cup (MetaDescriptionMax - 1 .. MetaDescriptionMax + MaxOver)

SizedDoc(topic, tl, ml) ==
    [GoodDoc(topic) EXCEPT !.v.title_tag = Chars(tl), !.v.meta_description = Chars(ml)]

SizedResponses(topic) ==
    {RawText(<<DocAtom>>, SizedDoc(topic, tl, ml)) : tl \in TitleLens, ml \in MetaLens}

\* generate_article and resume_job on one job, the service answering with
\* the sized documents.
LengthNext ==
    \/ \E request \in Requests :
          Cardinality(DOMAIN store) < MaxStoreJobs /\ StartGeneration(request)
    \/ GenSetRunning
    \/ GenFetch
    \/ GenSaveSerp
    \/ GenDerive
    \/ pc = "g_generate" /\ \E raw \in SizedResponses(Val(gen.request).topic) : GenAnswer(raw)
    \/ GenSaveArticle
    \/ GenReread
    \/ \E e \in ErrMsgs : GenRaise(e)
    \/ GenExcept
    \/ \E job_id \in JobIds : ResumeWithSerp(job_id)
    \/ ResDerive
    \/ pc = "r_generate" /\ \E raw \in SizedResponses(Val(res.job).request.topic) : ResAnswer(raw)
    \/ ResSaveArticle
    \/ ResReread
    \/ \E e \in ErrMsgs : ResRaise(e)
    \/ ResExcept

LengthSpec == Init /\ [][LengthNext]_vars

\* --------------------------------------- the service's content and keyword
\* Contents with no word, one word and several, and keywords that are empty,
\* white space, a word of the content in either case, or absent from it.
Contents ==
    {<< >>, <<" ">>, <<" ", " ">>, <<"seo">>, <<" ", "seo", " ">>,
     <<"SEO", " ", "seo">>, <<"seo", " ", "matters", " ", "today">>}

Keywords == {<< >>, <<" ">>, <<"seo">>, <<"SEO">>, <<"email">>}

WordedDoc(topic, content, keyword) ==
    [GoodDoc(topic) EXCEPT !.v.article_html = content, !.v.primary_keyword = keyword]

WordedResponses(topic) ==
    {RawText(<<DocAtom>>, WordedDoc(topic, content, keyword)) :
        content \in Contents, keyword \in Keywords}

\* generate_article on one job, the service answering with the worded
\* documents.
DensityNext ==
    \/ \E request \in Requests :
          Cardinality(DOMAIN store) < MaxStoreJobs /\ StartGeneration(request)
    \/ GenSetRunning
    \/ GenFetch
    \/ GenSaveSerp
    \/ GenDerive
    \/ pc = "g_generate" /\ \E raw \in WordedResponses(Val(gen.request).topic) : GenAnswer(raw)
    \/ GenSaveArticle
    \/ GenReread
    \/ \E e \in ErrMsgs : GenRaise(e)
    \/ GenExcept

DensitySpec == Init /\ [][DensityNext]_vars

\* ------------------------------------------------------ the Content Source
\* generate_article called again and again, at different times, on topics
\* that repeat; one of them is the empty text.
FetchTopics == {"", "seo", "email"}

FetchRequests == {ArticleRequest(t, 800, "en") : t \in FetchTopics}

FetchNext ==
    \/ Tick
    \/ \E request \in FetchRequests : StartGeneration(request)
    \/ GenSetRunning
    \/ GenFetch
    \/ GenSaveSerp
    \/ GenDerive
    \/ GenGenerate
    \/ GenSaveArticle
    \/ GenReread
    \/ \E e \in ErrMsgs : GenRaise(e)
    \/ GenExcept

FetchSpec == Init /\ [][FetchNext]_vars

\* ------------------------------------------------------------- properties
Job(id) == row_to_job(store[id])
JobAfter(id) == row_to_job(store'[id])

\* generate_article hands control back to its caller in this step, by a
\* return (line 60) or by the re-raise of its handler (line 69).
GenerateEnds ==
    /\ gen.active
    /\ ~gen'.active
    /\ \/ pc = "g_reread" /\ pc' = "idle" /\ result'.kind = "returned"
       \/ pc = "g_except" /\ pc' = "idle" /\ result'.kind = "raised"
       \/ pc = "g_except" /\ pc' = "r_except"

\* resume_job hands control back to its caller in this step.
ResumeEnds ==
    /\ res.active
    /\ ~res'.active
    /\ result'.op = "resume"
    /\ result'.kind \in {"returned", "raised"}

C2_ArticleIffCompleted ==
    \A id \in DOMAIN store :
        ~IsNone(Job(id).article) <=> Job(id).status = COMPLETED

\* C3 (as claimed): a stored job has an error message only when it is Failed.
C3_ErrorOnlyWhenFailed ==
    \A id \in DOMAIN store :
        ~IsNone(Job(id).error_message) => Job(id).status = FAILED

\* C4 (as claimed): a Completed job stays Completed in every step.
C4_CompletedIsFinal ==
    [][\A id \in DOMAIN store :
          Job(id).status = COMPLETED => JobAfter(id).status = COMPLETED]_vars

\* C5 (as claimed): a status changes only Pending -> Running, Running ->
\* Completed or Failed, and away from Failed only inside a resume_job call on
\* that job id.
C5_StateMachine ==
    [][\A id \in DOMAIN store :
          LET old == Job(id).status
              new == JobAfter(id).status
          IN old # new =>
               \/ old = PENDING /\ new = RUNNING
               \/ old = RUNNING /\ new \in {COMPLETED, FAILED}
               \/ old = FAILED /\ res.active /\ res.job_id = id]_vars

\* The handler of generate_article (lines 62-69) runs in this step.
GenHandles == pc = "g_except" /\ ~gen'.active /\ result'.kind # "interrupted"

\* The handler of resume_job (lines 108-111) runs in this step.
ResHandles == pc = "r_except" /\ ~res'.active /\ result'.kind # "interrupted"

\* C6 (as claimed): a failing step leaves the job Failed with the error's
\* message as its errorMessage, and the same error reaches the caller, who
\* gets no job record.
C6_FailureRecorded ==
    [][/\ GenHandles =>
            /\ JobAfter(gen.job_id).status = FAILED
            /\ JobAfter(gen.job_id).error_message = Some(gen.err)
            /\ IF res.active
               THEN pc' = "r_except" /\ res'.err = gen.err
               ELSE /\ result'.kind = "raised"
                    /\ result'.err = gen.err
                    /\ IsNone(result'.job)
       /\ ResHandles =>
            /\ JobAfter(res.job_id).status = FAILED
            /\ JobAfter(res.job_id).error_message = Some(res.err)
            /\ result'.kind = "raised"
            /\ result'.err = res.err
            /\ IsNone(result'.job)]_vars

\* C7: a resume_job that took the SERP-data branch and returns gives the same
\* job id back, Completed, without a fetch, without a new record, and with the
\* job's SERP data as it was before the call.
C7_ResumeKeepsSerp ==
    [][(pc = "r_reread" /\ ResumeEnds /\ result'.kind = "returned") =>
          /\ ~IsNone(result'.job)
          /\ Val(result'.job).job_id = res.job_id
          /\ Val(result'.job).status = COMPLETED
          /\ ~calls'.fetch
          /\ DOMAIN store' = DOMAIN res.pre
          /\ store'[res.job_id].serp_data = res.pre[res.job_id].serp_data
          /\ ~IsNone(Val(result'.job).serp_data)
          /\ Val(result'.job).serp_data = Val(res.job).serp_data]_vars

\* resume_job on a Failed job with SERP data and no article has saved the
\* new article and is about to return the job.
C7_Witness ==
    /\ pc = "r_reread"
    /\ Val(res.job).status = FAILED
    /\ IsNone(Val(res.job).article)
    /\ ~IsNone(Val(res.job).serp_data)
    /\ Job(res.job_id).status = COMPLETED
    /\ ~calls.fetch

\* C8: resume_job on a Completed job never enters the pipeline; a resume_job
\* that returns at once (a step from idle to idle that is not the passing of
\* time) returns the stored record of a Completed job, calls no collaborator
\* and leaves every stored row (updated_at included) and the set of rows as
\* they were.
C8_ResumeCompletedIdempotent ==
    [][/\ (pc = "idle" /\ res'.active) => Val(res'.job).status # COMPLETED
       /\ (pc = "idle" /\ pc' = "idle" /\ clock' = clock
                      /\ result'.op = "resume" /\ result'.kind = "returned") =>
            /\ \E id \in DOMAIN store :
                  Job(id).status = COMPLETED /\ result'.job = Some(Job(id))
            /\ store' = store
            /\ calls' = NoCalls]_vars

\* resume_job has returned a Completed job untouched, some time after the
\* job was last written.
C8_Witness ==
    /\ pc = "idle"
    /\ result.op = "resume"
    /\ result.kind = "returned"
    /\ calls = NoCalls
    /\ Val(result.job).status = COMPLETED
    /\ Val(result.job).updated_at < clock
    /\ store[Val(result.job).job_id].updated_at = IsoFormat(Val(result.job).updated_at)

\* C9: resume_job on a job without SERP data creates one new job with the
\* same request and runs generate_article on it; at the end of the call the
\* store holds exactly that one record more, and a returned record is the new
\* job, the resumed one being as it was.
C9_ResumeFromScratchNewJob ==
    [][/\ (pc = "idle" /\ res'.active /\ IsNone(Val(res'.job).serp_data)) =>
            /\ gen'.active
            /\ pc' = "g_set_running"
            /\ gen'.job_id \notin DOMAIN store
            /\ gen'.job_id # res'.job_id
            /\ DOMAIN store' = DOMAIN store \cup {gen'.job_id}
            /\ JobAfter(gen'.job_id).request = Val(res'.job).request
            /\ \A id \in DOMAIN store : store'[id] = store[id]
       /\ (ResumeEnds /\ IsNone(Val(res.job).serp_data)) =>
            /\ DOMAIN res.pre \subseteq DOMAIN store'
            /\ Cardinality(DOMAIN store') = Cardinality(DOMAIN res.pre) + 1
            /\ \A id \in DOMAIN store' \ DOMAIN res.pre :
                  JobAfter(id).request = Val(res.job).request
            /\ result'.kind = "returned" =>
                  /\ Val(result'.job).job_id # res.job_id
                  /\ Val(result'.job).job_id \notin DOMAIN res.pre
                  /\ JobAfter(res.job_id).status = Val(res.job).status
                  /\ IsNone(JobAfter(res.job_id).serp_data)
                  /\ IsNone(JobAfter(res.job_id).article)
                  /\ store'[res.job_id] = res.pre[res.job_id]]_vars

\* resume_job on a Failed job without SERP data has returned: the returned
\* job is a second, Completed record and the resumed one is still Failed.
C9_Witness ==
    /\ pc = "idle"
    /\ result.op = "resume"
    /\ result.kind = "returned"
    /\ calls.fetch
    /\ Val(result.job).status = COMPLETED
    /\ \E id \in DOMAIN store :
          /\ id # Val(result.job).job_id
          /\ Job(id).status = FAILED
          /\ IsNone(Job(id).serp_data)
          /\ Job(id).request = Val(result.job).request

\* C10 (as claimed): whenever the service answers with a text that is not the
\* requested shape, the generate step goes on to save an article, the
\* fallback one, with word_count > 0.
C10_MalformedYieldsFallback ==
    [][(pc \in {"g_generate", "r_generate"} /\ calls'.malformed) =>
          /\ pc' \in {"g_save_article", "r_save_article"}
          /\ LET a == IF pc = "g_generate" THEN gen'.article ELSE res'.article
                 topic == IF pc = "g_generate" THEN Val(gen.request).topic
                          ELSE Val(res.job).request.topic
                 outline == IF pc = "g_generate" THEN Val(gen.outline)
                            ELSE Val(res.outline)
             IN /\ ~IsNone(a)
                /\ Val(a).word_count > 0
                /\ Val(a) = BuildArticle(create_fallback_article(topic, outline),
                                         outline)]_vars

\* C11: in generate_article the fetched SERP data is on the stored job before
\* the generative service is invoked; when the service call then fails (the
\* generator neither catches the failure nor answers with a fallback), the
\* handler leaves the job Failed with that SERP data and without an article.
C11_SerpCheckpointSurvivesFailure ==
    [][/\ pc = "g_generate" =>
            /\ ~calls.generate
            /\ ~IsNone(Job(gen.job_id).serp_data)
            /\ Job(gen.job_id).serp_data = gen.serp_data
       /\ (GenHandles /\ calls.generate /\ ~calls.malformed /\ IsNone(gen.article)) =>
            /\ JobAfter(gen.job_id).status = FAILED
            /\ ~IsNone(JobAfter(gen.job_id).serp_data)
            /\ JobAfter(gen.job_id).serp_data = gen.serp_data
            /\ IsNone(JobAfter(gen.job_id).article)]_vars

\* generate_article has raised "service unavailable" after it invoked the
\* service, which gave no answer: a job is Failed with SERP data, no article.
C11_Witness ==
    /\ pc = "idle"
    /\ result.op = "generate"
    /\ result.kind = "raised"
    /\ result.err = "service unavailable"
    /\ calls.fetch
    /\ calls.generate
    /\ ~calls.malformed
    /\ \E id \in DOMAIN store :
          /\ Job(id).status = FAILED
          /\ Job(id).error_message = Some("service unavailable")
          /\ Job(id).serp_data = Some(get_serp_data(Job(id).request.topic))
          /\ IsNone(Job(id).article)

\* The call that ends in this step raised the not-found ValueError and wrote
\* nothing.
NotFoundRaised ==
    /\ result'.kind = "raised"
    /\ result'.err = "not found"
    /\ IsNone(result'.job)
    /\ store' = store

\* C12: get_job_status, resume_job, update_job_status, save_serp_data and
\* save_article on an id that is not stored raise not-found and leave the
\* jobs table as it was; resume_job on such an id can do nothing else.
C12_UnknownIdNotFound ==
    [][\A job_id \in JobIds \ DOMAIN store :
          /\ (result'.op = "status" /\ GetJobStatus(job_id)) => NotFoundRaised
          /\ (result'.op = "resume" /\ ResumeNotFound(job_id)) => NotFoundRaised
          /\ ~ENABLED ResumeCompleted(job_id)
          /\ ~ENABLED ResumeWithSerp(job_id)
          /\ ~ENABLED ResumeFromScratch(job_id)
          /\ \A status \in JobStatus, error \in ErrorInputs :
                (result'.op = "update_status"
                    /\ UpdateJobStatus(job_id, status, error)) => NotFoundRaised
          /\ \A serp_data \in SerpInputs :
                (result'.op = "save_serp"
                    /\ SaveSerpData(job_id, serp_data)) => NotFoundRaised
          /\ \A article \in ArticleInputs :
                (result'.op = "save_article"
                    /\ SaveArticle(job_id, article)) => NotFoundRaised]_vars

\* save_serp_data on an unknown id has raised not-found while a job with an
\* article and without SERP data is stored, and that job is as it was.
C12_Witness ==
    /\ pc = "idle"
    /\ result.op = "save_serp"
    /\ result.kind = "raised"
    /\ result.err = "not found"
    /\ \E id \in DOMAIN store :
          /\ Job(id).status = COMPLETED
          /\ IsNone(Job(id).serp_data)
          /\ DOMAIN store = {id}

\* C13: after create_job, update_job_status, save_serp_data and save_article
\* the record read back by id equals, field by field, the record the call
\* wrote from memory: job_id, status, request, serp_data, article (with its
\* faq_section), error_message, created_at and updated_at, each optional one
\* absent exactly when it was absent in memory.
C13_RoundTrip ==
    [][/\ \A request \in Requests :
            (result'.op = "create" /\ CreateJob(request)) =>
                /\ ~IsNone(result'.job)
                /\ get_job(store', Val(result'.job).job_id) = result'.job
       /\ \A job_id \in DOMAIN store :
            /\ \A status \in JobStatus, error \in ErrorInputs :
                  (/\ result'.op = "update_status"
                   /\ store'[job_id].status = status
                   /\ UpdateJobStatus(job_id, status, error)) =>
                      get_job(store', job_id) =
                          Some(set_status(Job(job_id), status, error, clock))
            /\ \A serp_data \in SerpInputs :
                  (result'.op = "save_serp" /\ SaveSerpData(job_id, serp_data)) =>
                      get_job(store', job_id) =
                          Some(set_serp_data(Job(job_id), serp_data, clock))
            /\ \A article \in ArticleInputs :
                  (result'.op = "save_article" /\ SaveArticle(job_id, article)) =>
                      /\ get_job(store', job_id) =
                             Some(set_article(Job(job_id), article, clock))
                      /\ Val(JobAfter(job_id).article).faq_section = article.faq_section]_vars

\* A job read back with SERP data, an error message, a later update time and
\* an article whose faq_section is absent.
C13_Witness ==
    /\ pc = "idle"
    /\ result.op = "status"
    /\ result.kind = "returned"
    /\ LET job == Val(result.job) IN
         /\ job = Job(job.job_id)
         /\ ~IsNone(job.serp_data)
         /\ Len(Val(job.serp_data).results) = NumResults
         /\ ~IsNone(job.error_message)
         /\ ~IsNone(job.article)
         /\ IsNone(Val(job.article).faq_section)
         /\ job.updated_at > job.created_at

\* C14: create_job returns a record under an id that was not stored, Pending,
\* created_at = updated_at = the time of the call, with the given request and
\* no SERP data, article or error message; the table gains that row only, and
\* get_job of the id gives the returned record.
C14_CreateReturnsFreshPending ==
    [][\A request \in Requests :
          (result'.op = "create" /\ CreateJob(request)) =>
              /\ result'.kind = "returned"
              /\ ~IsNone(result'.job)
              /\ LET job == Val(result'.job) IN
                   /\ job.job_id \notin DOMAIN store
                   /\ job.status = PENDING
                   /\ job.created_at = job.updated_at
                   /\ job.created_at = clock
                   /\ job.request = request
                   /\ IsNone(job.serp_data)
                   /\ IsNone(job.article)
                   /\ IsNone(job.error_message)
                   /\ DOMAIN store' = DOMAIN store \cup {job.job_id}
                   /\ \A id \in DOMAIN store : store'[id] = store[id]
                   /\ get_job(store', job.job_id) = result'.job]_vars

\* The third job has just been created, later than an earlier job that has
\* left Pending since.
C14_Witness ==
    /\ pc = "idle"
    /\ result.op = "create"
    /\ Cardinality(DOMAIN store) = 3
    /\ Val(result.job).created_at = 1
    /\ get_job(store, Val(result.job).job_id) = result.job
    /\ \E id \in DOMAIN store : Job(id).created_at = 0 /\ Job(id).status = FAILED

\* C15: in every step of the orchestrator the stored ids only grow, by at
\* most one new id; every stored row keeps its job_id (the key it is stored
\* under), its request and its created_at; and a row that changes is the row
\* of the job the call in progress works on (the job generate_article
\* created or the job resume_job was given), every other row being as it was.
C15_IdsAndRequestsAreStable ==
    [][/\ DOMAIN store \subseteq DOMAIN store'
       /\ Cardinality(DOMAIN store' \ DOMAIN store) <= 1
       /\ \A id \in DOMAIN store' \ DOMAIN store : JobAfter(id).job_id = id
       /\ \A id \in DOMAIN store :
            store'[id] # store[id] =>
                /\ JobAfter(id).job_id = id
                /\ JobAfter(id).request = Job(id).request
                /\ JobAfter(id).created_at = Job(id).created_at
                /\ \/ gen.active /\ gen.job_id = id
                   \/ res.active /\ res.job_id = id
                /\ \A other \in DOMAIN store \ {id} : store'[other] = store[other]]_vars

\* resume_job has completed one job, at a later time than the job was
\* created, while a second job is stored, untouched by the call.
C15_Witness ==
    /\ pc = "r_reread"
    /\ Cardinality(DOMAIN store) = 2
    /\ Job(res.job_id).status = COMPLETED
    /\ Job(res.job_id).updated_at > Job(res.job_id).created_at
    /\ \A other \in DOMAIN store \ {res.job_id} : store[other] = res.pre[other]

\* C16: the clock never goes back; every stored job has created_at <=
\* updated_at <= the clock; and update_job_status, save_serp_data and
\* save_article on a stored job leave its updated_at at the time of the call.
C16_UpdatedAtRefreshed ==
    [][/\ clock' >= clock
       /\ \A id \in DOMAIN store' :
            /\ JobAfter(id).updated_at >= JobAfter(id).created_at
            /\ JobAfter(id).updated_at <= clock'
       /\ \A job_id \in DOMAIN store :
            /\ \A status \in JobStatus, error \in ErrorInputs :
                  (/\ result'.op = "update_status"
                   /\ store'[job_id].status = status
                   /\ UpdateJobStatus(job_id, status, error)) =>
                      JobAfter(job_id).updated_at = clock
            /\ \A serp_data \in SerpInputs :
                  (result'.op = "save_serp" /\ SaveSerpData(job_id, serp_data)) =>
                      JobAfter(job_id).updated_at = clock
            /\ \A article \in ArticleInputs :
                  (result'.op = "save_article" /\ SaveArticle(job_id, article)) =>
                      JobAfter(job_id).updated_at = clock]_vars

\* save_article has returned on a job created at an earlier time: the job
\* carries the time of the call.
C16_Witness ==
    /\ pc = "idle"
    /\ result.op = "save_article"
    /\ result.kind = "returned"
    /\ \E id \in DOMAIN store :
          /\ Job(id).created_at = 0
          /\ Job(id).updated_at = 1
          /\ clock = 1
          /\ Job(id).status = COMPLETED

\* C17: list_jobs(limit) returns min(limit, number of stored jobs) summaries
\* {job_id, status, topic, created_at}, each the summary of a stored job, no
\* job twice, created_at descending, and no job left out is newer than a job
\* listed; with three jobs stored, list_jobs(10) returns three summaries.
C17_ListNewestFirst ==
    [][\A limit \in ListLimits :
          (result'.op = "list" /\ ListJobs(limit)) =>
              LET l == result'.list
                  n == Cardinality(DOMAIN store)
                  listed == {l[i].job_id : i \in 1 .. Len(l)}
              IN /\ result'.kind = "returned"
                 /\ Len(l) = Min(limit, n)
                 /\ (n = 3 /\ limit = DefaultLimit) => Len(l) = 3
                 /\ \A i \in 1 .. Len(l) :
                       /\ DOMAIN l[i] = {"job_id", "status", "topic", "created_at"}
                       /\ l[i].job_id \in DOMAIN store
                       /\ l[i].status = Job(l[i].job_id).status
                       /\ l[i].topic = Job(l[i].job_id).request.topic
                       /\ l[i].created_at = IsoFormat(Job(l[i].job_id).created_at)
                 /\ \A i, j \in 1 .. Len(l) : i # j => l[i].job_id # l[j].job_id
                 /\ \A i, j \in 1 .. Len(l) :
                       i < j => FromIsoFormat(l[i].created_at) >=
                                    FromIsoFormat(l[j].created_at)
                 /\ \A id \in DOMAIN store \ listed :
                       \A i \in 1 .. Len(l) :
                           Job(id).created_at <= FromIsoFormat(l[i].created_at)]_vars

\* Three jobs of different ages and statuses are stored and list_jobs(10)
\* has returned them, the newest first.
C17_Witness ==
    /\ pc = "idle"
    /\ result.op = "list"
    /\ Cardinality(DOMAIN store) = 3
    /\ Len(result.list) = 3
    /\ result.list[1].created_at = IsoFormat(1)
    /\ result.list[3].created_at = IsoFormat(0)
    /\ result.list[1].status # result.list[3].status

\* Three jobs are stored and list_jobs(2) has returned the two newest only.
C17_WitnessLimited ==
    /\ pc = "idle"
    /\ result.op = "list"
    /\ Cardinality(DOMAIN store) = 3
    /\ Len(result.list) = 2
    /\ result.list[1].created_at = IsoFormat(1)
    /\ \E id \in DOMAIN store : Job(id).created_at = 0

\* C18: update_job_status(id, s, error) on a stored job leaves get_job(id)
\* with status s; job_id, request, serp_data, article and created_at are as
\* before, error_message too when no error is given, and so is every other
\* row; only status, updated_at and, with an error, error_message may differ.
C18_UpdateStatusFrame ==
    [][\A job_id \in DOMAIN store :
          \A status \in JobStatus, error \in ErrorInputs :
              (/\ result'.op = "update_status"
               /\ store'[job_id].status = status
               /\ UpdateJobStatus(job_id, status, error)) =>
                  LET old == Job(job_id)
                      new == Val(get_job(store', job_id))
                  IN /\ result'.kind = "returned"
                     /\ new.status = status
                     /\ new.job_id = old.job_id
                     /\ new.request = old.request
                     /\ new.serp_data = old.serp_data
                     /\ new.article = old.article
                     /\ new.created_at = old.created_at
                     /\ IsNone(error) => new.error_message = old.error_message
                     /\ new.error_message \in {old.error_message, error}
                     /\ DOMAIN store' = DOMAIN store
                     /\ \A other \in DOMAIN store \ {job_id} :
                           store'[other] = store[other]]_vars

\* update_job_status has set a job that carries SERP data and an article to
\* Failed with an error message: data and article are still there.
C18_Witness ==
    /\ pc = "idle"
    /\ result.op = "update_status"
    /\ result.kind = "returned"
    /\ \E id \in DOMAIN store :
          /\ Job(id).status = FAILED
          /\ Job(id).error_message = Some("service unavailable")
          /\ ~IsNone(Job(id).serp_data)
          /\ ~IsNone(Job(id).article)
          /\ Job(id).updated_at > Job(id).created_at

\* C19: a JobManager mutation is a load of the whole record, a change in
\* memory and a separate write that replaces the whole row by the record in
\* memory, whatever the row holds by then; between the load and the write of
\* one call the steps of another call on the same id can take place.
C19_ReadModifyWrite ==
    [][\A p \in Procs :
          LET c == inflight[p]
              d == inflight'[p]
          IN /\ (c.at = "idle" /\ d.at = "loaded") =>
                   /\ d.job = get_job(store, d.job_id)
                   /\ store' = store
             /\ (c.at = "loaded" /\ d.at = "mutated") => store' = store
             /\ (c.at = "mutated" /\ d.at = "done") =>
                   /\ store'[c.job_id] = JobToRow(Val(c.job))
                   /\ get_job(store', c.job_id) = c.job
                   /\ \A id \in DOMAIN store \ {c.job_id} : store'[id] = store[id]]_vars

\* Two calls on the same job are over: save_article wrote its article and
\* update_job_status(FAILED), which had loaded the job before that write,
\* wrote afterwards: the stored job is Failed and the article is gone.
C19_Witness ==
    \E p, q \in Procs :
        /\ p # q
        /\ inflight[p].at = "done"
        /\ inflight[q].at = "done"
        /\ inflight[p].job_id = inflight[q].job_id
        /\ inflight[p].op = "save_article"
        /\ Val(inflight[p].job).status = COMPLETED
        /\ ~IsNone(Val(inflight[p].job).article)
        /\ inflight[q].op = "update_status"
        /\ get_job(store, inflight[q].job_id) = inflight[q].job
        /\ Job(inflight[q].job_id).status = FAILED
        /\ IsNone(Job(inflight[q].job_id).article)

\* generate_article is running on job id.
Started(id) == gen.active /\ gen.job_id = id

\* Job id is stored Completed or Failed.
Settled(id) == id \in DOMAIN store /\ Job(id).status \in {COMPLETED, FAILED}

\* The call has ended with the error of a handler's own write.
HandlerWriteFailed == pc = "idle" /\ result.kind = "raised" /\ result.err = StoreError

\* C20: every job generate_article has started is eventually Completed or
\* Failed, when the process does not exit and every call to the store, the
\* Content Source and the service returns or fails.
C20_EveryJobSettles == \A id \in 1 .. MaxJobs : Started(id) ~> Settled(id)

\* What does hold: every job generate_article has started is eventually
\* Completed or Failed, unless the call ends with the error of the write by
\* which its handler was to record the failure. No step loops or retries.
C20_SettlesUnlessHandlerWriteFails ==
    \A id \in 1 .. MaxJobs : Started(id) ~> (Settled(id) \/ HandlerWriteFailed)

\* generate_article has ended with the error of its handler's write, and
\* the job it started is stored Running, its SERP data saved.
C20_HandlerWriteFailedState ==
    /\ pc = "idle"
    /\ result.op = "generate"
    /\ result.kind = "raised"
    /\ result.err = StoreError
    /\ \E id \in DOMAIN store : Job(id).status = RUNNING /\ ~IsNone(Job(id).serp_data)

\* C21: once a stored job carries SERP data, every step of generate_article
\* and resume_job (and a process exit) leaves the job stored with those same
\* SERP data. (A job whose row a step leaves as it is reads back the same.)
C21_SerpDataImmutable ==
    [][\A id \in DOMAIN store :
          (id \notin DOMAIN store' \/ store'[id] # store[id]) =>
              (~IsNone(Job(id).serp_data) =>
                  /\ id \in DOMAIN store'
                  /\ JobAfter(id).serp_data = Job(id).serp_data)]_vars

\* resume_job on a job that had failed with its SERP data saved has skipped
\* the fetch and failed in its turn; the job still carries the data fetched
\* for its topic.
C21_Witness ==
    /\ pc = "idle"
    /\ result.op = "resume"
    /\ result.kind = "raised"
    /\ ~calls.fetch
    /\ calls.generate
    /\ \E id \in DOMAIN store :
          /\ Job(id).status = FAILED
          /\ Job(id).serp_data = Some(get_serp_data(Job(id).request.topic))

\* text is the first characters of value, all of them up to max.
FirstOf(text, value, max) ==
    /\ Len(text) = (IF Len(value) <= max THEN Len(value) ELSE max)
    /\ \A i \in 1 .. Len(text) : text[i] = value[i]

\* The metadata of article are the service's title and description, cut.
CutFrom(article, doc) ==
    /\ FirstOf(article.seo_metadata.title_tag, doc.v.title_tag, TitleTagMax)
    /\ FirstOf(article.seo_metadata.meta_description, doc.v.meta_description,
               MetaDescriptionMax)

\* C22: whatever the lengths of the title and the description the service
\* returns, the answer does not fail the call and yields an article whose
\* title tag and meta description are the first 60 and 160 characters of the
\* service's; save_article stores those on the Completed job, and every
\* article stored on a Completed job has a title tag of at most 60 and a meta
\* description of at most 160 characters.
C22_MetadataTruncated ==
    [][/\ \A topic \in Topics : \A raw \in SizedResponses(topic) :
            /\ (pc = "g_generate" /\ GenAnswer(raw)) =>
                   (pc' = "g_save_article" /\ CutFrom(Val(gen'.article), raw.doc))
            /\ (pc = "r_generate" /\ ResAnswer(raw)) =>
                   (pc' = "r_save_article" /\ CutFrom(Val(res'.article), raw.doc))
       /\ (pc = "g_save_article" /\ pc' = "g_reread") =>
              /\ JobAfter(gen.job_id).status = COMPLETED
              /\ JobAfter(gen.job_id).article = gen.article
       /\ (pc = "r_save_article" /\ pc' = "r_reread") =>
              /\ JobAfter(res.job_id).status = COMPLETED
              /\ JobAfter(res.job_id).article = res.article
       /\ \A id \in DOMAIN store' :
              (JobAfter(id).status = COMPLETED /\ ~IsNone(JobAfter(id).article)) =>
                  /\ Len(Val(JobAfter(id).article).seo_metadata.title_tag) <= TitleTagMax
                  /\ Len(Val(JobAfter(id).article).seo_metadata.meta_description)
                        <= MetaDescriptionMax]_vars

\* A job is stored Completed with the first 60 and 160 characters of the
\* longest title and description the service returns.
C22_Witness ==
    \E id \in DOMAIN store :
       /\ Job(id).status = COMPLETED
       /\ ~IsNone(Job(id).article)
       /\ Val(Job(id).article).seo_metadata.title_tag =
              SubSeq(Chars(TitleTagMax + MaxOver), 1, TitleTagMax)
       /\ Val(Job(id).article).seo_metadata.meta_description =
              SubSeq(Chars(MetaDescriptionMax + MaxOver), 1, MetaDescriptionMax)

\* The text has no word: it is empty or all white space.
NoWords(text) == \A i \in 1 .. Len(text) : text[i] = " "

\* C23: when the content the service returns has no word, the answer does not
\* fail the call and yields an article of word count 0 and keyword density 0,
\* whatever the primary keyword.
C23_ZeroWordsZeroDensity ==
    [][\A topic \in Topics : \A raw \in WordedResponses(topic) :
          (pc = "g_generate" /\ NoWords(raw.doc.v.article_html) /\ GenAnswer(raw)) =>
              /\ pc' = "g_save_article"
              /\ Val(gen'.article).content = raw.doc.v.article_html
              /\ Val(gen'.article).word_count = 0
              /\ Val(gen'.article).keyword_analysis.keyword_density = 0]_vars

\* The article built from a content of two blanks and the keyword of one
\* blank, which the content holds twice, has been stored.
C23_Witness ==
    \E id \in DOMAIN store :
       /\ Job(id).status = COMPLETED
       /\ ~IsNone(Job(id).article)
       /\ Val(Job(id).article).content = <<" ", " ">>
       /\ Val(Job(id).article).keyword_analysis.primary_keyword = <<" ">>
       /\ Val(Job(id).article).word_count = 0

\* C24: the fetch of generate_article returns SERP data whose query is the
\* topic and whose results are NumResults entries ranked 1, 2, ... in order;
\* they equal the data any earlier call fetched and saved for the same topic.
C24_FetchShape ==
    [][(pc = "g_fetch" /\ GenFetch) =>
          LET topic == Val(gen.request).topic
              data == Val(gen'.serp_data)
          IN /\ data.query = topic
             /\ Len(data.results) = NumResults
             /\ \A i \in 1 .. Len(data.results) : data.results[i].rank = i
             /\ \A id \in DOMAIN store :
                   (Job(id).request.topic = topic /\ ~IsNone(Job(id).serp_data)) =>
                       Job(id).serp_data = gen'.serp_data]_vars

\* A second call has fetched, later than the first, the data the first call
\* saved for the same topic.
C24_Witness ==
    /\ pc = "g_save_serp"
    /\ ~IsNone(gen.serp_data)
    /\ \E id \in DOMAIN store :
          /\ id # gen.job_id
          /\ Job(id).request.topic = Val(gen.request).topic
          /\ Job(id).serp_data = gen.serp_data
          /\ Job(id).updated_at < Job(gen.job_id).created_at

\* resume_job is in its start-from-scratch branch: the job it loaded has no
\* SERP data.
FromScratch == res.active /\ IsNone(Val(res.job).serp_data)

\* C25: when the pipeline restarted by resume_job's start-from-scratch
\* branch fails, generate_article's handler writes the new job Failed with the
\* error's message and hands the error to resume_job's handler, which writes
\* the resumed job Failed with the same message, the new job staying so, and
\* raises the error to the caller.
C25_FailureHandledTwice ==
    [][/\ (FromScratch /\ GenHandles) =>
            /\ JobAfter(gen.job_id).status = FAILED
            /\ JobAfter(gen.job_id).error_message = Some(gen.err)
            /\ pc' = "r_except"
            /\ res'.err = gen.err
            /\ store'[res.job_id] = store[res.job_id]
       /\ (FromScratch /\ ResHandles) =>
            /\ JobAfter(res.job_id).status = FAILED
            /\ JobAfter(res.job_id).error_message = Some(res.err)
            /\ \E id \in DOMAIN store' \ DOMAIN res.pre :
                  /\ JobAfter(id).status = FAILED
                  /\ JobAfter(id).error_message = Some(res.err)
            /\ result'.kind = "raised"
            /\ result'.err = res.err]_vars

\* resume_job is in its SERP-data branch: the job it loaded carries SERP data.
WithSerp == res.active /\ ~IsNone(Val(res.job).serp_data)

\* The save_article of resume_job (line 101) runs in this step.
ResSaves == pc = "r_save_article" /\ pc' = "r_reread"

\* C26: while resume_job runs on a job with SERP data, the record is written
\* once: by save_article, which makes it Completed with the generated
\* article, or by the handler, which makes it Failed with the error's message.
\* Until that write the record is as the call found it (never Running unless
\* it was), and no other step of the call changes it.
C26_ResumeWritesOnce ==
    [][/\ (WithSerp /\ ResSaves) =>
            /\ store[res.job_id] = res.pre[res.job_id]
            /\ JobAfter(res.job_id).status = COMPLETED
            /\ JobAfter(res.job_id).article = res.article
            /\ ~IsNone(res.article)
       /\ (WithSerp /\ ResHandles) =>
            /\ store[res.job_id] = res.pre[res.job_id]
            /\ JobAfter(res.job_id).status = FAILED
            /\ JobAfter(res.job_id).error_message = Some(res.err)
       /\ (WithSerp /\ res'.active /\ ~ResSaves) => store' = store
       /\ (WithSerp /\ ResumeEnds) =>
            JobAfter(res.job_id).status =
               (IF result'.kind = "returned" THEN COMPLETED ELSE FAILED)]_vars

\* C27: the handler's update_job_status marks the job Failed and writes the
\* error's message as its error_message when the message is not empty; when
\* it is empty the job keeps the error_message it had, none after a first
\* failure or the earlier failure's.
C27_EmptyMessageKeepsPrevious ==
    [][/\ GenHandles =>
            /\ JobAfter(gen.job_id).status = FAILED
            /\ JobAfter(gen.job_id).error_message =
                  (IF gen.err # "" THEN Some(gen.err)
                   ELSE Job(gen.job_id).error_message)
       /\ ResHandles =>
            /\ JobAfter(res.job_id).status = FAILED
            /\ JobAfter(res.job_id).error_message =
                  (IF res.err # "" THEN Some(res.err)
                   ELSE Job(res.job_id).error_message)]_vars

\* resume_job has raised an exception with the empty message on the only
\* stored job, which is Failed and still carries the message of its earlier
\* failure.
C27_Witness ==
    /\ pc = "idle"
    /\ result.op = "resume"
    /\ result.kind = "raised"
    /\ result.err = ""
    /\ DOMAIN store = {1}
    /\ Job(1).status = FAILED
    /\ Job(1).error_message = Some("service unavailable")

\* generate_article has raised an exception with the empty message: its job
\* is Failed without an error_message.
C27_WitnessFirstFailure ==
    /\ pc = "idle"
    /\ result.op = "generate"
    /\ result.kind = "raised"
    /\ result.err = ""
    /\ DOMAIN store = {1}
    /\ Job(1).status = FAILED
    /\ IsNone(Job(1).error_message)

====
